---- MODULE Spec2Model ----
(***************************************************************************)
(* Model of src/src/SNSPushAdapter.js: the SNS push adapter of parse-server *)
(* (construction, send, the per-group token exchange and the per-device     *)
(* publish), with the provider (AWS.SNS) as an environment that answers     *)
(* each outstanding call by invoking its callback.                          *)
(***************************************************************************)
EXTENDS Integers, Sequences, FiniteSets, TLC

\* ------------------------------------------------------------------------
\* Bounds
\* ------------------------------------------------------------------------
\* longest installation list handed to send
MaxDevices == 2
\* most device-sends (device x platform-config pairs) one send may start
MaxDispatch == 3

\* ------------------------------------------------------------------------
\* Values
\* ------------------------------------------------------------------------
\* JavaScript strings that the code inspects are sequences of characters;
\* the empty sequence stands for undefined / '' (both falsy)
Undefined == <<>>

ArnPrefix == <<"a", "r", "n">>

\* String.prototype.startsWith
StartsWith(s, prefix) ==
    /\ Len(s) >= Len(prefix)
    /\ SubSeq(s, 1, Len(prefix)) = prefix

Range(s) == {s[i] : i \in 1..Len(s)}

\* sequences over S of length at most n
SeqsUpTo(S, n) == UNION {[1..k -> S] : k \in 0..n}

\* this.validPushTypes
validPushTypes == <<"ios", "android">>

\* ------------------------------------------------------------------------
\* Inputs
\* ------------------------------------------------------------------------
IosConfigA == [bundleId |-> "com.a", production |-> "true", ARN |-> "app-ios-a"]
IosConfigB == [bundleId |-> "com.b", production |-> "false", ARN |-> "app-ios-b"]
IosConfigA2 == [bundleId |-> "com.a", production |-> "undefined", ARN |-> "app-ios-a-dev"]

\* pushConfig.pushTypes.ios: one config object, or an array of them
IosPushConfigs ==
    { [isArray |-> FALSE, items |-> <<IosConfigA>>],
      [isArray |-> TRUE, items |-> <<IosConfigB>>],
      [isArray |-> TRUE, items |-> <<IosConfigA, IosConfigB>>],
      [isArray |-> TRUE, items |-> <<IosConfigA2, IosConfigA>>] }

AndroidPushConfig == [ARN |-> "app-android"]

\* pushTypes.ios when the key is absent
NoIosPushConfig == [isArray |-> FALSE, items |-> <<>>]

\* pushConfig.pushTypes: keys is Object.keys(pushTypes), in insertion order
PushTypes(k, c) == [keys |-> k, ios |-> c, android |-> AndroidPushConfig]

NoPushTypes == PushTypes(<<>>, NoIosPushConfig)

\* the argument of the constructor; hasPushTypes is FALSE when
\* pushConfig.pushTypes is undefined
PushConfig(a, s, h, types) ==
    [accessKey |-> a, secretKey |-> s, hasPushTypes |-> h, pushTypes |-> types]

PushConfigs ==
    { PushConfig(TRUE, TRUE, TRUE, PushTypes(<<"ios", "android">>, c)) :
        c \in IosPushConfigs }
    \cup
    { PushConfig(TRUE, TRUE, TRUE, PushTypes(k, NoIosPushConfig)) :
        k \in {<<>>, <<"android">>, <<"winrt">>, <<"android", "winrt">>} }
    \cup
    { PushConfig(TRUE, TRUE, TRUE,
                 PushTypes(<<"android", "ios">>, [isArray |-> TRUE, items |-> <<IosConfigA>>])),
      PushConfig(TRUE, TRUE, TRUE,
                 PushTypes(<<"ios">>, [isArray |-> TRUE, items |-> <<IosConfigA, IosConfigB>>])),
      PushConfig(TRUE, TRUE, FALSE, NoPushTypes),
      PushConfig(FALSE, TRUE, TRUE, PushTypes(<<"android">>, NoIosPushConfig)),
      PushConfig(TRUE, FALSE, TRUE, PushTypes(<<"android">>, NoIosPushConfig)),
      PushConfig(FALSE, TRUE, TRUE, PushTypes(<<"winrt">>, NoIosPushConfig)),
      PushConfig(FALSE, FALSE, FALSE, NoPushTypes) }

RawToken1 == <<"t", "1">>
RawToken2 == <<"a", "r">>
TopicToken == <<"a", "r", "n", ":", "x">>

\* installation records as the caller holds them
Installation(type, token, app, topic) ==
    [deviceType |-> type, deviceToken |-> token,
     appIdentifier |-> app, topicArn |-> topic]

Installations ==
    { Installation("android", RawToken1, "undefined", Undefined),
      Installation("ios", RawToken1, "undefined", Undefined),
      Installation("ios", RawToken2, "com.a", Undefined),
      Installation("ios", TopicToken, "", Undefined),
      Installation("android", Undefined, "undefined", TopicToken) }

\* the second argument of send: a list, or an object whose arn property is
\* the list of topic targets
SendInputs ==
    { [arn |-> f, list |-> l] :
        f \in BOOLEAN, l \in SeqsUpTo(Installations, MaxDevices) }

Notifications == { [data |-> "alert", expirationTime |-> "undefined"] }

\* what the provider passes to the callback of createPlatformEndpoint:
\* (null, {EndpointArn}), (err, null), (null, {})
CreateResults == {"ok", "err", "noEndpointArn"}
\* ... of setEndpointAttributes: (null, {}), (null, null), (an Error, with its stack)
SetAttrResults == {"ok", "okNoData", "errStack"}
\* ... of publish: (null, {MessageId}), (err without stack), (an Error, with its stack)
PublishResults == {"ok", "err", "errStack"}

\* ------------------------------------------------------------------------
\* State
\* ------------------------------------------------------------------------
VARIABLES
    pushConfigArg,       \* the argument the constructor was called with
    adapter,             \* "none", "constructed" or "threw" (the constructor)
    thrown,              \* the platform list named by the thrown error
    availablePushTypes,  \* this.availablePushTypes
    snsConfig,           \* this.snsConfig
    senderMap,           \* this.senderMap
    sendInput,           \* the installations argument as the caller passed it
    installations,       \* the caller's installation records, as they are now
    deviceMap,           \* utils.classifyInstallations(...) inside send
    groups,              \* the sendToSNS calls of the send, in call order
    ds,                  \* ds[g][i]: the device-send of device i of group g
    groupPromise,        \* groupPromise[g]: the promise sendToSNS returned
    outstanding,         \* provider calls whose callback has not run yet
    issued,              \* every provider call made so far, with its params
    sendPromise,         \* the promise send returned
    sendResult           \* the values that promise was resolved with

vars == <<pushConfigArg, adapter, thrown, availablePushTypes, snsConfig, senderMap, sendInput,
          installations, deviceMap, groups, ds, groupPromise, outstanding,
          issued, sendPromise, sendResult>>

adapterVars == <<pushConfigArg, adapter, thrown, availablePushTypes, snsConfig, senderMap>>
sendVars == <<sendInput, installations, deviceMap, groups, ds, groupPromise,
              outstanding, issued, sendPromise, sendResult>>

Init ==
    /\ pushConfigArg = PushConfig(FALSE, FALSE, FALSE, NoPushTypes)
    /\ adapter = "none"
    /\ thrown = <<>>
    /\ availablePushTypes = <<>>
    /\ snsConfig = NoPushTypes
    /\ senderMap = <<>>
    /\ sendInput = [arn |-> FALSE, list |-> <<>>]
    /\ installations = <<>>
    /\ deviceMap = <<>>
    /\ groups = <<>>
    /\ ds = <<>>
    /\ groupPromise = <<>>
    /\ outstanding = {}
    /\ issued = {}
    /\ sendPromise = "none"
    /\ sendResult = <<>>

\* ------------------------------------------------------------------------
\* Constructor
\* ------------------------------------------------------------------------
\* a validation that lets every key through
FirstUnsupportedNone(keys) == 0

\* the index of the first key of pushTypes that is not a valid push type,
\* 0 when there is none
FirstUnsupported(keys) ==
    LET bad == {i \in 1..Len(keys) : keys[i] \notin Range(validPushTypes)}
    IN IF bad = {} THEN 0 ELSE CHOOSE i \in bad : \A j \in bad : i <= j

\* a switch that binds every platform to the Android sender
SenderOfAlwaysGCM(pushType) == "sendToGCM"

SenderOf(pushType) ==
    IF pushType = "ios" THEN "sendToAPNS" ELSE "sendToGCM"

SNSPushAdapter(pushConfig) ==
    /\ adapter = "none"
    /\ pushConfigArg' = pushConfig
    /\ snsConfig' = (IF pushConfig.hasPushTypes THEN pushConfig.pushTypes ELSE NoPushTypes)
    /\ IF ~pushConfig.accessKey \/ ~pushConfig.secretKey
       THEN /\ adapter' = "threw"
            /\ thrown' = <<"Need to provide AWS keys">>
            /\ availablePushTypes' = <<>>
            /\ senderMap' = <<>>
       ELSE LET keys == IF pushConfig.hasPushTypes THEN pushConfig.pushTypes.keys ELSE <<>>
                bad == FirstUnsupported(keys)
                seen == IF bad = 0 THEN keys ELSE SubSeq(keys, 1, bad - 1)
            IN /\ availablePushTypes' = seen
               /\ senderMap' = [t \in Range(seen) |-> SenderOf(t)]
               /\ IF bad = 0
                  THEN adapter' = "constructed" /\ thrown' = <<>>
                  ELSE adapter' = "threw" /\ thrown' = keys
    /\ UNCHANGED sendVars

Construct == \E pushConfig \in PushConfigs : SNSPushAdapter(pushConfig)

\* SNSPushAdapter.prototype.getValidPushTypes
getValidPushTypes == availablePushTypes

\* ------------------------------------------------------------------------
\* Classifier and payload framers
\* ------------------------------------------------------------------------
\* a classifier that puts every installation with a token into every bucket
classifyInstallationsAnyType(insts, validTypes) ==
    [t \in Range(validTypes) |->
        LET kept == SelectSeq(insts, LAMBDA x : x.deviceToken # Undefined)
        IN [i \in 1..Len(kept) |->
               [deviceToken |-> kept[i].deviceToken,
                deviceType |-> kept[i].deviceType,
                appIdentifier |-> kept[i].appIdentifier]]]

\* utils.classifyInstallations of parse-server-push-adapter: one bucket per
\* valid push type; an installation without deviceToken is skipped; a kept
\* installation is copied down to three fields
classifyInstallations(insts, validTypes) ==
    [t \in Range(validTypes) |->
        LET kept == SelectSeq(insts,
                        LAMBDA x : x.deviceToken # Undefined /\ x.deviceType = t)
        IN [i \in 1..Len(kept) |->
               [deviceToken |-> kept[i].deviceToken,
                deviceType |-> kept[i].deviceType,
                appIdentifier |-> kept[i].appIdentifier]]]

\* JSON.stringify
JSONstringify(value) == <<"json", value>>

generateiOSPayload(data, production) ==
    LET prefix == IF production THEN "APNS" ELSE "APNS_SANDBOX"
        notification == <<"apns", data.data, data.expirationTime>>
    IN (prefix :> notification) @@ ("default" :> <<"sns">>)

generateAndroidPayload(data) ==
    LET payload == [gcm |-> <<data.data, "pushId", "timeStamp", data.expirationTime>>,
                    default |-> <<"sns">>]
    IN [GCM |-> JSONstringify(payload)]

\* ------------------------------------------------------------------------
\* Token exchange
\* ------------------------------------------------------------------------
Call(op, g, i) == [op |-> op, g |-> g, i |-> i]
Request(op, g, i, params) == [op |-> op, g |-> g, i |-> i, params |-> params]

\* the EndpointArn the provider hands out for a token of an application
EndpointArn(platformArn, token) == <<"endpoint", platformArn>> \o token

\* a property of an object, undefined when the object lacks it
TopicArnOf(device) ==
    IF "topicArn" \in DOMAIN device THEN device.topicArn ELSE Undefined

\* SNSPushAdapter.prototype.getPlatformArn: the params of createPlatformEndpoint
getPlatformArn(device, arn) ==
    [PlatformApplicationArn |-> arn, Token |-> device.deviceToken]

\* the device-send as exchangeTokenPromise leaves it when it returns:
\* resolved at once for a handle, else waiting for createPlatformEndpoint.
\* enabled and published record what the provider answered to the
\* device-send's setEndpointAttributes and publish
exchangeTokenPromise(device, platformARN) ==
    IF StartsWith(device.deviceToken, ArnPrefix)
    THEN [exchange |-> "resolved", arn |-> TopicArnOf(device), promise |-> "none",
          transmitted |-> "unset", response |-> "unset",
          enabled |-> "unset", published |-> "unset",
          nCreate |-> 0, nSetAttr |-> 0, nPublish |-> 0]
    ELSE [exchange |-> "pending", arn |-> Undefined, promise |-> "none",
          transmitted |-> "unset", response |-> "unset",
          enabled |-> "unset", published |-> "unset",
          nCreate |-> 1, nSetAttr |-> 0, nPublish |-> 0]

\* the group one sendToSNS call works on
sendToSNS(pushType, config, payload, devices, platformArn) ==
    [pushType |-> pushType, config |-> config, payload |-> payload,
     devices |-> devices, platformArn |-> platformArn]

\* ------------------------------------------------------------------------
\* Platform senders
\* ------------------------------------------------------------------------
\* a filter that sends only to devices naming the bundle
deviceSendsExactOnly(iosConfig, devices) ==
    SelectSeq(devices, LAMBDA device : device.appIdentifier = iosConfig.bundleId)

\* the devices sendToAPNS sends for one iOS config
deviceSends(iosConfig, devices) ==
    SelectSeq(devices,
        LAMBDA device :
            \/ device.appIdentifier = "undefined" \/ device.appIdentifier = ""
            \/ device.appIdentifier = iosConfig.bundleId)

\* iosConfig.production || false
Production(iosConfig) == iosConfig.production = "true"

\* a loop whose groups all get the payload of the last config
RECURSIVE apnsLoopLastPayload(_, _, _, _)
apnsLoopLastPayload(data, devices, iosConfigs, k) ==
    IF k > Len(iosConfigs) THEN <<>>
    ELSE LET last == iosConfigs[Len(iosConfigs)]
             payload == generateiOSPayload(data, last.production = "true")
             sends == deviceSends(iosConfigs[k], devices)
             rest == apnsLoopLastPayload(data, devices, iosConfigs, k + 1)
         IN IF Len(sends) > 0
            THEN <<sendToSNS("ios", k, payload, sends, iosConfigs[k].ARN)>> \o rest
            ELSE rest

\* the sendToSNS calls of sendToAPNS for the configs k..Len(iosConfigs)
RECURSIVE apnsLoop(_, _, _, _)
apnsLoop(data, devices, iosConfigs, k) ==
    IF k > Len(iosConfigs) THEN <<>>
    ELSE LET iosConfig == iosConfigs[k]
             payload == generateiOSPayload(data, Production(iosConfig))
             sends == deviceSends(iosConfig, devices)
             rest == apnsLoop(data, devices, iosConfigs, k + 1)
         IN IF Len(sends) > 0
            THEN <<sendToSNS("ios", k, payload, sends, iosConfig.ARN)>> \o rest
            ELSE rest

sendToAPNS(data, devices) ==
    LET iosPushConfig == snsConfig.ios
        iosConfigs == IF iosPushConfig.isArray
                      THEN <<>> \o iosPushConfig.items
                      ELSE <<iosPushConfig.items[1]>>
    IN apnsLoop(data, devices, iosConfigs, 1)

sendToGCM(data, devices) ==
    LET payload == generateAndroidPayload(data)
        pushConfig == snsConfig.android
    IN <<sendToSNS("android", 0, payload, devices, pushConfig.ARN)>>

\* ------------------------------------------------------------------------
\* send
\* ------------------------------------------------------------------------
\* the calls sender(data, devices) of the forEach over Object.keys(deviceMap),
\* for the keys k..Len(keys)
RECURSIVE senderLoop(_, _, _, _)
senderLoop(data, dm, keys, k) ==
    IF k > Len(keys) THEN <<>>
    ELSE LET pushType == keys[k]
             devices == dm[pushType]
             sender == senderMap[pushType]
         IN (IF sender = "sendToAPNS" THEN sendToAPNS(data, devices)
                                      ELSE sendToGCM(data, devices))
            \o senderLoop(data, dm, keys, k + 1)

\* Array.prototype.forEach returns undefined, whatever its callback returned
forEach(returned) == [isArray |-> FALSE, items |-> <<>>]

\* Parse.Promise.when(x) as send uses it: a value that is no array is taken
\* as the one argument, and an argument that is no promise counts as done
whenSend(sendPromises) ==
    IF sendPromises.isArray /\ Len(sendPromises.items) > 0
    THEN [state |-> "pending", values |-> <<>>]
    ELSE [state |-> "resolved", values |-> <<>>]

NumDispatches(gs) ==
    LET RECURSIVE sum(_)
        sum(k) == IF k = 0 THEN 0 ELSE Len(gs[k].devices) + sum(k - 1)
    IN sum(Len(gs))

send(data, input) ==
    /\ adapter = "constructed"
    /\ sendPromise = "none"
    /\ LET insts == IF input.arn
                    THEN [i \in 1..Len(input.list) |->
                            [input.list[i] EXCEPT !.deviceToken = input.list[i].topicArn]]
                    ELSE input.list
           dm == classifyInstallations(insts, availablePushTypes)
           gs == senderLoop(data, dm, availablePushTypes, 1)
           rows == [g \in 1..Len(gs) |->
                      [i \in 1..Len(gs[g].devices) |->
                          exchangeTokenPromise(gs[g].devices[i], gs[g].platformArn)]]
           creates == {Call("create", g, i) : g \in 1..Len(gs), i \in 1..MaxDispatch}
           started == {c \in creates :
                          /\ c.i <= Len(gs[c.g].devices)
                          /\ rows[c.g][c.i].exchange = "pending"}
           done == whenSend(forEach(gs))
       IN /\ NumDispatches(gs) <= MaxDispatch
          /\ sendInput' = input
          /\ installations' = insts
          /\ deviceMap' = dm
          /\ groups' = gs
          /\ ds' = rows
          /\ groupPromise' = [g \in 1..Len(gs) |-> "pending"]
          /\ outstanding' = started
          /\ issued' = {Request("create", c.g, c.i,
                           getPlatformArn(gs[c.g].devices[c.i], gs[c.g].platformArn)) :
                           c \in started}
          /\ sendPromise' = done.state
          /\ sendResult' = done.values
    /\ UNCHANGED adapterVars

Send == \E data \in Notifications, input \in SendInputs : send(data, input)

\* ------------------------------------------------------------------------
\* Provider callbacks
\* ------------------------------------------------------------------------
GroupIds == 1..Len(groups)
DeviceIds(g) == 1..Len(groups[g].devices)

\* the callback exchangeTokenPromise hands to createPlatformEndpoint
createPlatformEndpointCallback(g, i, result) ==
    /\ Call("create", g, i) \in outstanding
    /\ outstanding' = outstanding \ {Call("create", g, i)}
    /\ LET device == groups[g].devices[i]
           hasArn == result = "ok"
       IN ds' = [ds EXCEPT ![g][i] =
                    IF hasArn
                    THEN [@ EXCEPT !.exchange = "resolved",
                                   !.arn = EndpointArn(groups[g].platformArn, device.deviceToken)]
                    ELSE [@ EXCEPT !.exchange = "rejected"]]
    /\ UNCHANGED <<adapterVars, sendInput, installations, deviceMap, groups,
                   groupPromise, issued, sendPromise, sendResult>>

\* a join that is resolved as soon as one exchange is
whenAnyResolved(states) ==
    IF \E k \in 1..Len(states) : states[k] = "resolved" THEN "resolved"
    ELSE IF \E k \in 1..Len(states) : states[k] = "pending" THEN "pending"
    ELSE IF \E k \in 1..Len(states) : states[k] = "rejected" THEN "rejected"
    ELSE "resolved"

\* a join that lets a rejected exchange through
whenIgnoringRejections(states) ==
    IF \E k \in 1..Len(states) : states[k] = "pending" THEN "pending"
    ELSE "resolved"

\* Parse.Promise.when over an array of promises: settled once every one is,
\* rejected when any was rejected
when(states) ==
    IF \E k \in 1..Len(states) : states[k] = "pending" THEN "pending"
    ELSE IF \E k \in 1..Len(states) : states[k] = "rejected" THEN "rejected"
    ELSE "resolved"

\* a request object that is never turned into a topic publish
publishObjectTargetOnly(arn, payload, device) ==
    [Message |-> <<"json", payload>>, MessageStructure |-> "json",
     TargetArn |-> arn, TopicArn |-> Undefined]

\* the request object sendSNSPayload builds
publishObject(arn, payload, device) ==
    LET object == [Message |-> JSONstringify(payload), MessageStructure |-> "json",
                   TargetArn |-> arn, TopicArn |-> Undefined]
    IN IF StartsWith(device.deviceToken, ArnPrefix)
       THEN [object EXCEPT !.TargetArn = Undefined, !.TopicArn = device.deviceToken]
       ELSE object

\* the params of setEndpointAttributes
enableParams(arn) == [Attributes |-> [Enabled |-> "true"], EndpointArn |-> arn]

\* a sendSNSPayload that publishes without enabling the endpoint first
sendSNSPayloadNoEnable(g, i, arn, payload, device) ==
    Request("publish", g, i,
            [Message |-> <<"json", payload>>, MessageStructure |-> "json",
             TargetArn |-> IF StartsWith(device.deviceToken, ArnPrefix)
                           THEN Undefined ELSE arn,
             TopicArn |-> IF StartsWith(device.deviceToken, ArnPrefix)
                          THEN device.deviceToken ELSE Undefined])

\* the provider call sendSNSPayload makes before it returns
sendSNSPayload(g, i, arn, payload, device) ==
    LET object == publishObject(arn, payload, device)
    IN IF object.TopicArn # Undefined
       THEN Request("publish", g, i, object)
       ELSE Request("setattr", g, i, enableParams(arn))

\* the device-send after sendSNSPayload returned
afterSendSNSPayload(d, request) ==
    IF request.op = "publish"
    THEN [d EXCEPT !.promise = "pending", !.nPublish = @ + 1]
    ELSE [d EXCEPT !.promise = "pending", !.nSetAttr = @ + 1]

\* a then-callback that joins the exchanges of every group of the send
exchangeResponsesOfAllGroups(g) ==
    /\ g \in GroupIds
    /\ groupPromise[g] = "pending"
    /\ LET all == {<<h, j>> \in (1..MaxDispatch) \X (1..MaxDispatch) :
                      h \in GroupIds /\ j \in DeviceIds(h)}
           settled == IF \E p \in all : ds[p[1]][p[2]].exchange = "pending" THEN "pending"
                      ELSE IF \E p \in all : ds[p[1]][p[2]].exchange = "rejected"
                           THEN "rejected" ELSE "resolved"
           requests == {sendSNSPayload(g, i, ds[g][i].arn, groups[g].payload,
                                       groups[g].devices[i]) : i \in DeviceIds(g)}
       IN /\ settled # "pending"
          /\ groupPromise' = [groupPromise EXCEPT ![g] = settled]
          /\ IF settled = "resolved"
             THEN /\ issued' = issued \cup requests
                  /\ outstanding' = outstanding \cup {Call(r.op, r.g, r.i) : r \in requests}
                  /\ ds' = [ds EXCEPT ![g] =
                              [i \in DeviceIds(g) |->
                                 afterSendSNSPayload(ds[g][i],
                                    sendSNSPayload(g, i, ds[g][i].arn, groups[g].payload,
                                                   groups[g].devices[i]))]]
             ELSE UNCHANGED <<issued, outstanding, ds>>
    /\ UNCHANGED <<adapterVars, sendInput, installations, deviceMap, groups,
                   sendPromise, sendResult>>

\* the then-callback of sendToSNS, run once the exchange promises are settled
exchangeResponses(g) ==
    /\ g \in GroupIds
    /\ groupPromise[g] = "pending"
    /\ LET settled == when([i \in DeviceIds(g) |-> ds[g][i].exchange])
           requests == {sendSNSPayload(g, i, ds[g][i].arn, groups[g].payload,
                                       groups[g].devices[i]) : i \in DeviceIds(g)}
       IN /\ settled # "pending"
          /\ groupPromise' = [groupPromise EXCEPT ![g] = settled]
          /\ IF settled = "resolved"
             THEN /\ issued' = issued \cup requests
                  /\ outstanding' = outstanding \cup {Call(r.op, r.g, r.i) : r \in requests}
                  /\ ds' = [ds EXCEPT ![g] =
                              [i \in DeviceIds(g) |->
                                 afterSendSNSPayload(ds[g][i],
                                    sendSNSPayload(g, i, ds[g][i].arn, groups[g].payload,
                                                   groups[g].devices[i]))]]
             ELSE UNCHANGED <<issued, outstanding, ds>>
    /\ UNCHANGED <<adapterVars, sendInput, installations, deviceMap, groups,
                   sendPromise, sendResult>>

\* an error branch that reports the push as transmitted
rejectResponseTransmitted(d, result) ==
    [d EXCEPT !.transmitted = "true",
              !.response = IF result = "errStack" THEN "err.stack" ELSE @,
              !.promise = "rejected"]

\* the branch of a callback that an error takes
rejectResponse(d, result) ==
    [d EXCEPT !.transmitted = "false",
              !.response = IF result = "errStack" THEN "err.stack" ELSE @,
              !.promise = "rejected"]

\* the branch of a publish callback without error
resolveResponse(d) ==
    [d EXCEPT !.transmitted = "true", !.response = "data", !.promise = "resolved"]

\* the callback of the publish to a topic
topicPublishCallback(g, i, result) ==
    /\ Call("publish", g, i) \in outstanding
    /\ ds[g][i].nSetAttr = 0
    /\ outstanding' = outstanding \ {Call("publish", g, i)}
    /\ ds' = [ds EXCEPT ![g][i] =
                IF result # "ok"
                THEN rejectResponse([@ EXCEPT !.published = result], result)
                ELSE resolveResponse([@ EXCEPT !.published = result])]
    /\ UNCHANGED <<adapterVars, sendInput, installations, deviceMap, groups,
                   groupPromise, issued, sendPromise, sendResult>>

\* does the callback of setEndpointAttributes go on to publish
publishAfterEnable(result) == result = "ok"

\* a callback whose error branch does not return and goes on to publish
setEndpointAttributesCallbackNoReturn(g, i, result) ==
    /\ [op |-> "setattr", g |-> g, i |-> i] \in outstanding
    /\ IF result # "okNoData"
       THEN /\ ds' = [ds EXCEPT ![g][i] =
                        IF result = "ok"
                        THEN [@ EXCEPT !.enabled = result, !.nPublish = @ + 1]
                        ELSE [@ EXCEPT !.enabled = result, !.nPublish = @ + 1,
                                       !.transmitted = "false",
                                       !.response = "err.stack",
                                       !.promise = "rejected"]]
            /\ outstanding' = (outstanding \ {[op |-> "setattr", g |-> g, i |-> i]})
                                 \cup {[op |-> "publish", g |-> g, i |-> i]}
            /\ issued' = issued \cup
                  {[op |-> "publish", g |-> g, i |-> i,
                    params |-> [Message |-> <<"json", groups[g].payload>>,
                                MessageStructure |-> "json",
                                TargetArn |-> ds[g][i].arn, TopicArn |-> Undefined]]}
       ELSE /\ ds' = [ds EXCEPT ![g][i].enabled = result]
            /\ outstanding' = outstanding \ {[op |-> "setattr", g |-> g, i |-> i]}
            /\ UNCHANGED issued
    /\ UNCHANGED <<adapterVars, sendInput, installations, deviceMap, groups,
                   groupPromise, sendPromise, sendResult>>

\* a callback whose error branch gives up the whole group
setEndpointAttributesCallbackFailFast(g, i, result) ==
    /\ [op |-> "setattr", g |-> g, i |-> i] \in outstanding
    /\ IF result \in {"err", "errStack"}
       THEN /\ ds' = [ds EXCEPT ![g][i] =
                        [@ EXCEPT !.enabled = result, !.transmitted = "false",
                                  !.promise = "rejected"]]
            /\ outstanding' = {c \in outstanding : c.g # g}
            /\ UNCHANGED issued
       ELSE IF result = "ok"
       THEN /\ ds' = [ds EXCEPT ![g][i].nPublish = @ + 1, ![g][i].enabled = result]
            /\ outstanding' = (outstanding \ {[op |-> "setattr", g |-> g, i |-> i]})
                                 \cup {[op |-> "publish", g |-> g, i |-> i]}
            /\ issued' = issued \cup
                  {[op |-> "publish", g |-> g, i |-> i,
                    params |-> [Message |-> <<"json", groups[g].payload>>,
                                MessageStructure |-> "json",
                                TargetArn |-> ds[g][i].arn, TopicArn |-> Undefined]]}
       ELSE /\ ds' = [ds EXCEPT ![g][i].enabled = result]
            /\ outstanding' = outstanding \ {[op |-> "setattr", g |-> g, i |-> i]}
            /\ UNCHANGED issued
    /\ UNCHANGED <<adapterVars, sendInput, installations, deviceMap, groups,
                   groupPromise, sendPromise, sendResult>>

\* the callback of setEndpointAttributes
setEndpointAttributesCallback(g, i, result) ==
    /\ Call("setattr", g, i) \in outstanding
    /\ LET device == groups[g].devices[i]
           object == publishObject(ds[g][i].arn, groups[g].payload, device)
       IN IF result \in {"err", "errStack"}
          THEN /\ ds' = [ds EXCEPT ![g][i] =
                            rejectResponse([@ EXCEPT !.enabled = result], result)]
               /\ outstanding' = outstanding \ {Call("setattr", g, i)}
               /\ UNCHANGED issued
          ELSE IF publishAfterEnable(result)
          THEN /\ ds' = [ds EXCEPT ![g][i].nPublish = @ + 1, ![g][i].enabled = result]
               /\ outstanding' = (outstanding \ {Call("setattr", g, i)})
                                    \cup {Call("publish", g, i)}
               /\ issued' = issued \cup {Request("publish", g, i, object)}
          ELSE /\ ds' = [ds EXCEPT ![g][i].enabled = result]
               /\ outstanding' = outstanding \ {Call("setattr", g, i)}
               /\ UNCHANGED issued
    /\ UNCHANGED <<adapterVars, sendInput, installations, deviceMap, groups,
                   groupPromise, sendPromise, sendResult>>

\* a callback that publishes once more after an error
publishCallbackRetry(g, i, result) ==
    /\ [op |-> "publish", g |-> g, i |-> i] \in outstanding
    /\ ds[g][i].nSetAttr > 0
    /\ IF result # "ok" /\ ds[g][i].nPublish < 2
       THEN /\ ds' = [ds EXCEPT ![g][i].nPublish = @ + 1]
            /\ UNCHANGED outstanding
       ELSE /\ outstanding' = outstanding \ {[op |-> "publish", g |-> g, i |-> i]}
            /\ ds' = [ds EXCEPT ![g][i] =
                        IF result # "ok"
                        THEN [@ EXCEPT !.published = result, !.transmitted = "false",
                                       !.promise = "rejected"]
                        ELSE [@ EXCEPT !.published = result, !.transmitted = "true",
                                       !.response = "data", !.promise = "resolved"]]
    /\ UNCHANGED <<adapterVars, sendInput, installations, deviceMap, groups,
                   groupPromise, issued, sendPromise, sendResult>>

\* the callback of the publish to an endpoint
publishCallback(g, i, result) ==
    /\ Call("publish", g, i) \in outstanding
    /\ ds[g][i].nSetAttr > 0
    /\ outstanding' = outstanding \ {Call("publish", g, i)}
    /\ ds' = [ds EXCEPT ![g][i] =
                IF result # "ok"
                THEN rejectResponse([@ EXCEPT !.published = result], result)
                ELSE resolveResponse([@ EXCEPT !.published = result])]
    /\ UNCHANGED <<adapterVars, sendInput, installations, deviceMap, groups,
                   groupPromise, issued, sendPromise, sendResult>>

CreateDone ==
    \E c \in outstanding, result \in CreateResults :
        createPlatformEndpointCallback(c.g, c.i, result)

ExchangeDone == \E g \in GroupIds : exchangeResponses(g)

TopicPublishDone ==
    \E c \in outstanding, result \in PublishResults :
        topicPublishCallback(c.g, c.i, result)

SetAttrDone ==
    \E c \in outstanding, result \in SetAttrResults :
        setEndpointAttributesCallback(c.g, c.i, result)

PublishDone ==
    \E c \in outstanding, result \in PublishResults :
        publishCallback(c.g, c.i, result)

Next ==
    \/ Construct
    \/ Send
    \/ CreateDone
    \/ ExchangeDone
    \/ TopicPublishDone
    \/ SetAttrDone
    \/ PublishDone

Spec == Init /\ [][Next]_vars

\* ------------------------------------------------------------------------
\* Properties
\* ------------------------------------------------------------------------
Dispatches == {<<g, i>> : g \in GroupIds, i \in 1..MaxDispatch} \cap
              {p \in (1..MaxDispatch) \X (1..MaxDispatch) :
                  p[1] \in GroupIds /\ p[2] \in DeviceIds(p[1])}

DeviceOf(p) == groups[p[1]].devices[p[2]]
SendOf(p) == ds[p[1]][p[2]]
RequestsOf(p, op) == {r \in issued : r.op = op /\ r.g = p[1] /\ r.i = p[2]}
IsHandle(p) == StartsWith(DeviceOf(p).deviceToken, ArnPrefix)
Waiting(p, op) == Call(op, p[1], p[2]) \in outstanding

\* C1: send completes only after every provider call (create-endpoint,
\* set-endpoint-attributes, publish) started by that send has finished
C1_SendWaitsForAllCalls ==
    sendPromise = "resolved" => outstanding = {}

\* C2: when send completes, its result holds exactly one outcome for each
\* (device, platform-config) pair that was dispatched
C2_ResultIsFullOutcomeSet ==
    sendPromise = "resolved" =>
        /\ Len(sendResult) = Cardinality(Dispatches)
        /\ \A p \in Dispatches :
              \E k \in 1..Len(sendResult) :
                  /\ sendResult[k].device.deviceToken = DeviceOf(p).deviceToken
                  /\ sendResult[k].device.deviceType = DeviceOf(p).deviceType

\* C3: a group in which some create-endpoint failed never has its promise
\* resolved, is rejected once the exchange is joined, and never issues a
\* set-endpoint-attributes or publish call for any of its devices
C3_ExchangeFailFast ==
    \A g \in GroupIds :
        (\E i \in DeviceIds(g) : ds[g][i].exchange = "rejected") =>
            /\ groupPromise[g] \in {"pending", "rejected"}
            /\ (\A i \in DeviceIds(g) : ds[g][i].exchange # "pending")
                   => (groupPromise[g] = "pending" => ENABLED exchangeResponses(g))
            /\ \A i \in DeviceIds(g) :
                  /\ RequestsOf(<<g, i>>, "setattr") = {}
                  /\ RequestsOf(<<g, i>>, "publish") = {}
                  /\ ds[g][i].promise = "none"
                  /\ ds[g][i].nSetAttr = 0 /\ ds[g][i].nPublish = 0

\* a rejected group holding a device whose own resolution succeeded
C3_Witness ==
    \E g \in GroupIds :
        /\ groupPromise[g] = "rejected"
        /\ \E i \in DeviceIds(g) : ds[g][i].exchange = "rejected"
        /\ \E i \in DeviceIds(g) : ds[g][i].exchange = "resolved"

\* C4: once a group entered its publish phase, every device has its own
\* provider call issued and keeps it until its own callback runs, and the
\* step in which one device-send fails leaves every sibling device-send, its
\* outstanding call and its issued requests as they were
C4_SiblingsKept ==
    \A g \in GroupIds :
        groupPromise[g] = "resolved" =>
            \A i \in DeviceIds(g) :
                /\ ds[g][i].promise # "none"
                /\ IsHandle(<<g, i>>) \/ RequestsOf(<<g, i>>, "setattr") # {}
                /\ ds[g][i].enabled = "ok" => RequestsOf(<<g, i>>, "publish") # {}
                /\ (ds[g][i].promise = "pending" /\ ds[g][i].enabled # "okNoData")
                      => (Waiting(<<g, i>>, "setattr") \/ Waiting(<<g, i>>, "publish"))

C4_FailureStep ==
    \A p \in Dispatches :
        (SendOf(p).transmitted # "false" /\ SendOf(p)'.transmitted = "false") =>
            \A q \in Dispatches :
                (q[1] = p[1] /\ q # p) =>
                    /\ SendOf(q)' = SendOf(q)
                    /\ Waiting(q, "setattr")' = Waiting(q, "setattr")
                    /\ Waiting(q, "publish")' = Waiting(q, "publish")
                    /\ RequestsOf(q, "setattr")' = RequestsOf(q, "setattr")
                    /\ RequestsOf(q, "publish")' = RequestsOf(q, "publish")

C4_PublishFailSoft == []C4_SiblingsKept /\ [][C4_FailureStep]_vars

\* a group where one device failed to enable or publish and its sibling was
\* delivered
C4_Witness ==
    \E p \in Dispatches, q \in Dispatches :
        /\ p[1] = q[1] /\ p # q
        /\ SendOf(p).transmitted = "false"
        /\ SendOf(q).transmitted = "true"

\* C5: a publish to an endpoint (TargetArn) is issued only after
\* setEndpointAttributes(Enabled = "true") for that endpoint completed without
\* error; when it completed with an error the outcome is transmitted = false
\* and no publish is issued for the device
C5_EnableBeforePublish ==
    \A p \in Dispatches :
        /\ \A r \in RequestsOf(p, "publish") :
              r.params.TargetArn # Undefined =>
                  /\ SendOf(p).enabled \in {"ok", "okNoData"}
                  /\ ~Waiting(p, "setattr")
                  /\ \E q \in RequestsOf(p, "setattr") :
                        /\ q.params.EndpointArn = r.params.TargetArn
                        /\ q.params.Attributes.Enabled = "true"
        /\ SendOf(p).enabled \in {"err", "errStack"} =>
              /\ SendOf(p).transmitted = "false"
              /\ SendOf(p).promise = "rejected"
              /\ RequestsOf(p, "publish") = {}
              /\ SendOf(p).nPublish = 0
              /\ ~Waiting(p, "publish")

\* one endpoint enabled and published to, another whose enabling failed
C5_Witness ==
    \E p \in Dispatches, q \in Dispatches :
        /\ ~IsHandle(p) /\ SendOf(p).enabled = "ok" /\ SendOf(p).published # "unset"
        /\ SendOf(q).enabled \in {"err", "errStack"}

\* C6: every device-send that reached the publishing step and is not settled
\* yet waits for a provider callback; in particular, after
\* setEndpointAttributes completed without error publish has been attempted
C6_DeviceSendSettles ==
    \A p \in Dispatches :
        /\ SendOf(p).promise = "pending"
              => (Waiting(p, "setattr") \/ Waiting(p, "publish"))
        /\ SendOf(p).enabled \in {"ok", "okNoData"} => SendOf(p).nPublish > 0

\* C7: a device whose token is a provider handle gets no createPlatformEndpoint
\* and no setEndpointAttributes call, is resolved from the start, and its
\* only publish request has TopicArn = deviceToken and no TargetArn
C7_HandleBypassesExchange ==
    \A p \in Dispatches :
        IsHandle(p) =>
            /\ RequestsOf(p, "create") = {} /\ RequestsOf(p, "setattr") = {}
            /\ SendOf(p).nCreate = 0 /\ SendOf(p).nSetAttr = 0
            /\ ~Waiting(p, "create") /\ ~Waiting(p, "setattr")
            /\ SendOf(p).exchange = "resolved"
            /\ SendOf(p).nPublish <= 1
            /\ SendOf(p).promise # "none" => SendOf(p).nPublish = 1
            /\ \A r \in RequestsOf(p, "publish") :
                  /\ r.params.TopicArn = DeviceOf(p).deviceToken
                  /\ r.params.TargetArn = Undefined

\* a handle whose publish was issued
C7_Witness ==
    \E p \in Dispatches :
        IsHandle(p) /\ RequestsOf(p, "publish") # {}

\* C8: send is never rejected, and a device-send that failed in
\* setEndpointAttributes or publish is an outcome with transmitted = false in
\* the result the caller of send received
C8_FailuresAreOutcomes ==
    /\ sendPromise # "rejected"
    /\ sendPromise = "resolved" =>
          \A p \in Dispatches :
              SendOf(p).transmitted = "false" =>
                  \E k \in 1..Len(sendResult) :
                      /\ sendResult[k].device.deviceToken = DeviceOf(p).deviceToken
                      /\ sendResult[k].transmitted = "false"

\* C9: a group is rejected only for a failed create-endpoint of its own, its
\* publish phase is entered whenever its own exchanges all succeeded, and a
\* step in which a create-endpoint of one group fails or that group is
\* rejected changes nothing of any other group
GroupView(g) ==
    <<ds[g], groupPromise[g],
      {c \in outstanding : c.g = g}, {r \in issued : r.g = g}>>

C9_OwnFailureOnly ==
    \A g \in GroupIds :
        /\ groupPromise[g] = "rejected"
              => \E i \in DeviceIds(g) : ds[g][i].exchange = "rejected"
        /\ (/\ groupPromise[g] = "pending"
            /\ \A i \in DeviceIds(g) : ds[g][i].exchange = "resolved")
              => ENABLED exchangeResponses(g)

C9_FailureStep ==
    \A g \in GroupIds :
        (\/ \E i \in DeviceIds(g) :
               ds[g][i].exchange # "rejected" /\ ds'[g][i].exchange = "rejected"
         \/ groupPromise[g] # "rejected" /\ groupPromise'[g] = "rejected") =>
            \A h \in GroupIds \ {g} : GroupView(h)' = GroupView(h)

C9_GroupsIsolated == []C9_OwnFailureOnly /\ [][C9_FailureStep]_vars

\* one group rejected, another group of the same send delivered
C9_Witness ==
    \E g \in GroupIds, h \in GroupIds :
        /\ g # h
        /\ groupPromise[g] = "rejected"
        /\ groupPromise[h] = "resolved"
        /\ \E i \in DeviceIds(h) : ds[h][i].transmitted = "true"

\* C10: after send, an iOS device is in the send subset of an iOS config iff
\* it has no or an empty appIdentifier or its appIdentifier is the config's
\* bundleId; a config whose subset is empty has no group, hence no provider call
IosConfigs == snsConfig.ios.items

IosGroups(k) == {g \in GroupIds : groups[g].pushType = "ios" /\ groups[g].config = k}

C10_BundleFilter ==
    (sendPromise # "none" /\ "ios" \in Range(availablePushTypes)) =>
        \A k \in 1..Len(IosConfigs) :
            /\ Cardinality(IosGroups(k)) <= 1
            /\ \A g \in IosGroups(k) : groups[g].devices # <<>>
            /\ \A g \in IosGroups(k) : groups[g].platformArn = IosConfigs[k].ARN
            /\ \A n \in 1..Len(deviceMap["ios"]) :
                  LET device == deviceMap["ios"][n]
                  IN (\E g \in IosGroups(k) : device \in Range(groups[g].devices))
                     <=> \/ device.appIdentifier \in {"undefined", ""}
                         \/ device.appIdentifier = IosConfigs[k].bundleId
            /\ IosGroups(k) = {} =>
                  \A r \in issued :
                      r.op = "create" => r.params.PlatformApplicationArn # IosConfigs[k].ARN

\* two bundle configs, a device without appIdentifier sent for both and a
\* device naming one bundle sent for that one only
C10_Witness ==
    /\ sendPromise # "none"
    /\ Len(IosConfigs) = 2
    /\ \E g \in IosGroups(1), h \in IosGroups(2) :
          /\ Len(groups[g].devices) + Len(groups[h].devices) = 3
          /\ \E d \in Range(groups[g].devices) \cap Range(groups[h].devices) :
                d.appIdentifier = "undefined"

\* C11: every publish issued for an iOS bundle group carries the envelope of
\* that group's own config: key "APNS" when the config is production, key
\* "APNS_SANDBOX" otherwise (also when production is unset), together with
\* "default": "sns"
EnvelopeKey(iosConfig) ==
    IF iosConfig.production = "true" THEN "APNS" ELSE "APNS_SANDBOX"

C11_OwnEnvelope ==
    \A r \in issued :
        (r.op = "publish" /\ groups[r.g].pushType = "ios") =>
            LET iosConfig == IosConfigs[groups[r.g].config]
                envelope == r.params.Message[2]
            IN /\ r.params.MessageStructure = "json"
               /\ r.params.Message[1] = "json"
               /\ DOMAIN envelope = {EnvelopeKey(iosConfig), "default"}
               /\ envelope["default"] = <<"sns">>
               /\ groups[r.g].platformArn = iosConfig.ARN

\* two bundle groups of one send that published under different keys
C11_Witness ==
    \E r \in issued, q \in issued :
        /\ r.op = "publish" /\ q.op = "publish"
        /\ groups[r.g].pushType = "ios" /\ groups[q.g].pushType = "ios"
        /\ groups[r.g].config # groups[q.g].config
        /\ "APNS" \in DOMAIN r.params.Message[2]
        /\ "APNS_SANDBOX" \in DOMAIN q.params.Message[2]

\* C12: a configuration naming an unsupported platform is refused with an
\* error that names the platform, and no adapter is produced
UnsupportedIn(pushConfig) ==
    IF pushConfig.hasPushTypes
    THEN Range(pushConfig.pushTypes.keys) \ {"ios", "android"}
    ELSE {}

HasKeys(pushConfig) == pushConfig.accessKey /\ pushConfig.secretKey

\* as claimed: for every such configuration
C12_UnsupportedNamed ==
    (adapter # "none" /\ UnsupportedIn(pushConfigArg) # {}) =>
        /\ adapter = "threw"
        /\ UnsupportedIn(pushConfigArg) \subseteq Range(thrown)

\* as amended: for every such configuration that supplies both AWS keys the
\* error lists the configured platforms, the unsupported one among them; one
\* that lacks a key is refused with the error about the keys
C12_UnsupportedNamedGivenKeys ==
    (adapter # "none" /\ UnsupportedIn(pushConfigArg) # {}) =>
        /\ adapter = "threw"
        /\ sendPromise = "none" /\ groups = <<>> /\ issued = {}
        /\ HasKeys(pushConfigArg) =>
              /\ thrown = pushConfigArg.pushTypes.keys
              /\ UnsupportedIn(pushConfigArg) \subseteq Range(thrown)
        /\ ~HasKeys(pushConfigArg) => thrown = <<"Need to provide AWS keys">>

\* a configuration with both keys refused for winrt, named next to android
C12_Witness ==
    /\ adapter = "threw"
    /\ HasKeys(pushConfigArg)
    /\ thrown = <<"android", "winrt">>

\* C13: after a successful construction getValidPushTypes is the list of
\* platforms of the configuration and senderMap has a handler for exactly
\* those (ios -> sendToAPNS, android -> sendToGCM), for the adapter's whole
\* lifetime; every bucket send dispatches has its handler
ConfiguredPlatforms ==
    IF pushConfigArg.hasPushTypes THEN pushConfigArg.pushTypes.keys ELSE <<>>

C13_HandlersMatchPlatforms ==
    adapter = "constructed" =>
        /\ getValidPushTypes = ConfiguredPlatforms
        /\ DOMAIN senderMap = Range(ConfiguredPlatforms)
        /\ DOMAIN senderMap \subseteq {"ios", "android"}
        /\ "ios" \in DOMAIN senderMap => senderMap["ios"] = "sendToAPNS"
        /\ "android" \in DOMAIN senderMap => senderMap["android"] = "sendToGCM"
        /\ sendPromise # "none" =>
              /\ DOMAIN deviceMap = DOMAIN senderMap
              /\ \A g \in GroupIds :
                    /\ groups[g].pushType \in DOMAIN senderMap
                    /\ groups[g].pushType = "ios" <=> groups[g].config > 0
                    /\ \A i \in DeviceIds(g) :
                          groups[g].devices[i].deviceType = groups[g].pushType

\* an adapter for both platforms whose send dispatched a bucket of each
C13_Witness ==
    /\ adapter = "constructed"
    /\ sendPromise # "none"
    /\ \E g \in GroupIds, h \in GroupIds :
          /\ groups[g].pushType = "ios" /\ groups[h].pushType = "android"
          /\ groups[g].devices # <<>> /\ groups[h].devices # <<>>

\* C14: send changes no field of an installation record of the caller
C14_InstallationsReadOnly ==
    sendPromise # "none" => installations = sendInput.list

\* C15: the buckets of send hold every installation of an available platform
\* once, in its platform's bucket and in the original order; the others are
\* in no bucket and cause no provider call
BucketEntry(installation) ==
    [deviceToken |-> installation.deviceToken,
     deviceType |-> installation.deviceType,
     appIdentifier |-> installation.appIdentifier]

Entries(insts) == [n \in 1..Len(insts) |-> BucketEntry(insts[n])]

OfPlatform(t) == SelectSeq(installations, LAMBDA x : x.deviceType = t)

WithToken(insts) == SelectSeq(insts, LAMBDA x : x.deviceToken # Undefined)

\* the devices of the groups stem from the bucket of the group's platform,
\* and every provider call belongs to a device of a group
CallsFromBuckets ==
    /\ \A g \in GroupIds :
          Range(groups[g].devices) \subseteq Range(deviceMap[groups[g].pushType])
    /\ \A r \in issued : r.g \in GroupIds /\ r.i \in DeviceIds(r.g)
    /\ \A r \in issued :
          r.op = "create" =>
              r.params.Token = groups[r.g].devices[r.i].deviceToken

Failed(d) == d.enabled = "errStack" \/ d.published \in {"err", "errStack"}

ExpectedCreate(p) ==
    IF IsHandle(p) THEN {}
    ELSE {[op |-> "create", g |-> p[1], i |-> p[2],
           params |-> [PlatformApplicationArn |-> groups[p[1]].platformArn,
                       Token |-> DeviceOf(p).deviceToken]]}

ExpectedEndpoint(p) ==
    <<"endpoint", groups[p[1]].platformArn>> \o DeviceOf(p).deviceToken

ExpectedSetAttr(p) ==
    IF groupPromise[p[1]] = "resolved" /\ ~IsHandle(p)
    THEN {[op |-> "setattr", g |-> p[1], i |-> p[2],
           params |-> [Attributes |-> [Enabled |-> "true"],
                       EndpointArn |-> ExpectedEndpoint(p)]]}
    ELSE {}

ExpectedPublish(p) ==
    LET message == <<"json", groups[p[1]].payload>>
    IN IF groupPromise[p[1]] = "resolved" /\ IsHandle(p)
       THEN {[op |-> "publish", g |-> p[1], i |-> p[2],
              params |-> [Message |-> message, MessageStructure |-> "json",
                          TargetArn |-> Undefined,
                          TopicArn |-> DeviceOf(p).deviceToken]]}
       ELSE IF SendOf(p).enabled = "ok"
       THEN {[op |-> "publish", g |-> p[1], i |-> p[2],
              params |-> [Message |-> message, MessageStructure |-> "json",
                          TargetArn |-> ExpectedEndpoint(p),
                          TopicArn |-> Undefined]]}
       ELSE {}

ExpectedOutcome(p) ==
    LET d == SendOf(p)
    IN IF d.published = "ok"
       THEN <<"resolved", "true", "data">>
       ELSE IF Failed(d)
       THEN <<"rejected", "false",
              IF "errStack" \in {d.enabled, d.published} THEN "err.stack" ELSE "unset">>
       ELSE IF groupPromise[p[1]] = "resolved"
       THEN <<"pending", "unset", "unset">>
       ELSE <<"none", "unset", "unset">>

C16_OrderIndependent ==
    /\ \A g \in GroupIds :
          /\ groupPromise[g] = "resolved" =>
                \A i \in DeviceIds(g) : ds[g][i].exchange = "resolved"
          /\ groupPromise[g] = "rejected" =>
                /\ \A i \in DeviceIds(g) : ds[g][i].exchange # "pending"
                /\ \E i \in DeviceIds(g) : ds[g][i].exchange = "rejected"
    /\ \A p \in Dispatches :
          /\ RequestsOf(p, "create") = ExpectedCreate(p)
          /\ RequestsOf(p, "setattr") = ExpectedSetAttr(p)
          /\ RequestsOf(p, "publish") = ExpectedPublish(p)
          /\ <<SendOf(p).promise, SendOf(p).transmitted, SendOf(p).response>>
                = ExpectedOutcome(p)
    /\ issued = UNION {RequestsOf(p, op) :
                          p \in Dispatches, op \in {"create", "setattr", "publish"}}

\* every callback of a send with two groups has run, one device-send was
\* delivered and one failed
C16_Witness ==
    /\ sendPromise # "none"
    /\ outstanding = {}
    /\ Len(groups) >= 2
    /\ \A g \in GroupIds : groupPromise[g] # "pending"
    /\ \E p \in Dispatches, q \in Dispatches :
          /\ p[1] # q[1]
          /\ SendOf(p).transmitted = "true"
          /\ SendOf(q).transmitted = "false"

\* C17: an outcome has transmitted = true iff the provider answered the
\* device's publish without error, and then its response is the answer of
\* publish; it has transmitted = false iff setEndpointAttributes or publish
\* answered with an error
C17_TransmittedIffPublished ==
    \A p \in Dispatches :
        /\ SendOf(p).transmitted = "true" <=> SendOf(p).published = "ok"
        /\ SendOf(p).transmitted = "true" =>
              SendOf(p).response = "data" /\ SendOf(p).promise = "resolved"
        /\ SendOf(p).transmitted = "false" <=>
              \/ SendOf(p).enabled \in {"err", "errStack"}
              \/ SendOf(p).published \in {"err", "errStack"}
        /\ SendOf(p).published # "unset" =>
              SendOf(p).transmitted # "unset" /\ RequestsOf(p, "publish") # {}

\* one outcome transmitted, one failed in publish and one failed in
\* setEndpointAttributes
C17_Witness ==
    \E p \in Dispatches, q \in Dispatches, r \in Dispatches :
        /\ SendOf(p).transmitted = "true" /\ SendOf(p).published = "ok"
        /\ SendOf(q).transmitted = "false" /\ SendOf(q).published = "err"
        /\ SendOf(r).transmitted = "false" /\ SendOf(r).enabled = "errStack"

\* C18: the promise of a device-send is settled at most once and a
\* transmitted flag that was set never changes
C18_SettledStep ==
    \A p \in Dispatches :
        /\ SendOf(p).promise \in {"resolved", "rejected"} =>
              /\ SendOf(p)'.promise = SendOf(p).promise
              /\ SendOf(p)'.response = SendOf(p).response
        /\ SendOf(p).transmitted # "unset" =>
              SendOf(p)'.transmitted = SendOf(p).transmitted
        /\ SendOf(p)'.transmitted # SendOf(p).transmitted =>
              SendOf(p).promise = "pending" /\ SendOf(p)'.promise # "pending"

C18_OutcomeWrittenOnce == [][C18_SettledStep]_vars

\* a device-send rejected by publish and a sibling settled as well
C18_Witness ==
    \E p \in Dispatches, q \in Dispatches :
        /\ p # q /\ p[1] = q[1]
        /\ SendOf(p).promise = "rejected" /\ SendOf(p).published = "errStack"
        /\ SendOf(q).promise \in {"resolved", "rejected"}

\* C19: each device-send makes at most one createPlatformEndpoint, one
\* setEndpointAttributes and one publish call, and an error of publish ends it
C19_NoRetry ==
    \A p \in Dispatches :
        /\ SendOf(p).nCreate <= 1 /\ SendOf(p).nSetAttr <= 1 /\ SendOf(p).nPublish <= 1
        /\ Cardinality(RequestsOf(p, "create")) = SendOf(p).nCreate
        /\ Cardinality(RequestsOf(p, "setattr")) = SendOf(p).nSetAttr
        /\ Cardinality(RequestsOf(p, "publish")) = SendOf(p).nPublish
        /\ SendOf(p).published \in {"err", "errStack"} =>
              /\ SendOf(p).promise = "rejected"
              /\ \A op \in {"create", "setattr", "publish"} : ~Waiting(p, op)

\* a device-send that went through all three calls and ended in a publish error
C19_Witness ==
    \E p \in Dispatches :
        /\ SendOf(p).published \in {"err", "errStack"}
        /\ SendOf(p).nCreate = 1 /\ SendOf(p).nSetAttr = 1 /\ SendOf(p).nPublish = 1

\* C20: no setEndpointAttributes and no publish call is issued for a device
\* of a group before the token resolution of every device of the group is done
C20_ResolutionBarrier ==
    \A g \in GroupIds :
        (\E i \in DeviceIds(g) :
            \/ RequestsOf(<<g, i>>, "setattr") # {}
            \/ RequestsOf(<<g, i>>, "publish") # {}
            \/ ds[g][i].nSetAttr > 0 \/ ds[g][i].nPublish > 0
            \/ ds[g][i].promise # "none")
        => \A j \in DeviceIds(g) :
              ds[g][j].exchange = "resolved" /\ ~Waiting(<<g, j>>, "create")

\* a group of two devices, one of them resolved by createPlatformEndpoint,
\* in its publish phase
C20_Witness ==
    \E g \in GroupIds :
        /\ Len(groups[g].devices) >= 2
        /\ \E i \in DeviceIds(g) : ds[g][i].nCreate = 1 /\ ds[g][i].nSetAttr = 1
        /\ \A j \in DeviceIds(g) : ds[g][j].promise # "none"

====
